---- MODULE Spec2Model ----
(***************************************************************************)
(* Transaction data model of nil/internal/types/transaction.go:            *)
(* flags, VerifyFlags, gas price, payload promotion, signing hash,         *)
(* cached hash and the JSON form of the flags.                             *)
(***************************************************************************)
EXTENDS Integers, Sequences, FiniteSets, TLC

VARIABLES pc, txn, txn2, arg, res, twh

vars == <<pc, txn, txn2, arg, res, twh>>

(***************************************************************************)
(* Bounds of the model                                                     *)
(***************************************************************************)
MaxRequestId == 1
MaxFee == 4
MaxTokens == 3

(***************************************************************************)
(* Program constants                                                       *)
(***************************************************************************)
TransactionFlagInternal == 0
TransactionFlagDeploy == 1
TransactionFlagRefund == 2
TransactionFlagBounce == 3
TransactionFlagResponse == 4

ExecutionTransactionKind == 0
DeployTransactionKind == 1
RefundTransactionKind == 2
ResponseTransactionKind == 3

TransactionMaxTokenSize == 256
TransactionMaxDataSize == 24576

MainShardId == 0

NoError == "nil"
ErrInternalRoles == "internal transaction cannot be deploy, refund, bounce or async at the same time"
ErrExternalRoles == "external transaction cannot be bounce, refund or async"
ErrMainShard == "transaction to main shard is not allowed from a regular shard"
ErrFeeBelowBase == "max fee per gas is less than base fee per gas"

(***************************************************************************)
(* BitFlags[uint8]                                                         *)
(***************************************************************************)
Pow2(i) == 2 ^ i

GetBit(bits, i) == (bits \div Pow2(i)) % 2 = 1

SetBit(bits, i) == IF GetBit(bits, i) THEN bits ELSE (bits + Pow2(i)) % 256

Clear(bits) == 0

RECURSIVE NewBitFlags(_)
NewBitFlags(flags) ==
    IF flags = <<>> THEN 0
    ELSE SetBit(NewBitFlags(SubSeq(flags, 1, Len(flags) - 1)), flags[Len(flags)])

NewTransactionFlags(flags) == NewBitFlags(flags)

FlagsIsInternal(f) == GetBit(f, TransactionFlagInternal)
FlagsIsDeploy(f) == GetBit(f, TransactionFlagDeploy)
FlagsIsRefund(f) == GetBit(f, TransactionFlagRefund)
FlagsIsBounce(f) == GetBit(f, TransactionFlagBounce)
FlagsIsResponse(f) == GetBit(f, TransactionFlagResponse)

(***************************************************************************)
(* Address: 20 bytes, the shard id in the two leading bytes                *)
(***************************************************************************)
Addr(shard, id) == [shard |-> shard, id |-> id]

ShardId(a) == a.shard

IsMainShard(s) == s = MainShardId

(***************************************************************************)
(* Transaction                                                             *)
(***************************************************************************)
NewFeePack == [FeeCredit |-> 0, MaxPriorityFeePerGas |-> 0, MaxFeePerGas |-> 0]

NewEmptyTransaction ==
    [Flags |-> 0, FeePack |-> NewFeePack, To |-> Addr(0, 0), ChainId |-> 0,
     Seqno |-> 0, Data |-> <<>>,
     From |-> Addr(0, 0), TxId |-> 0, RefundTo |-> Addr(0, 0),
     BounceTo |-> Addr(0, 0), Value |-> 0, RequestId |-> 0, Token |-> <<>>,
     RequestChain |-> <<>>, Signature |-> <<>>]

IsInternal(m) == GetBit(m.Flags, TransactionFlagInternal)
IsExternal(m) == ~IsInternal(m)
IsExecution(m) == ~FlagsIsDeploy(m.Flags) /\ ~FlagsIsRefund(m.Flags)
IsBounce(m) == FlagsIsBounce(m.Flags)
IsDeploy(m) == FlagsIsDeploy(m.Flags)
IsRefund(m) == FlagsIsRefund(m.Flags)
IsResponse(m) == FlagsIsResponse(m.Flags)
IsRequestOrResponse(m) == m.RequestId # 0
IsRequest(m) == IsRequestOrResponse(m) /\ ~IsResponse(m)
IsSystem(m) == IsMainShard(ShardId(m.To))

B2N(b) == IF b THEN 1 ELSE 0

\* RoleCount that forgets the bounce increment
RoleCountNoBounce(m) ==
    B2N(IsDeploy(m)) + B2N(IsRefund(m)) + B2N(IsRequestOrResponse(m))

\* num counts the roles exactly as the four increments of the code do
RoleCount(m) ==
    B2N(IsDeploy(m)) + B2N(IsRefund(m)) + B2N(IsBounce(m)) + B2N(IsRequestOrResponse(m))

\* VerifyFlags whose external branch forgets the request-or-response test
VerifyFlagsNoAsync(m) ==
    IF IsInternal(m) /\ RoleCount(m) > 1 THEN ErrInternalRoles
    ELSE IF ~IsInternal(m) /\ (IsRefund(m) \/ IsBounce(m)) THEN ErrExternalRoles
    ELSE IF IsMainShard(ShardId(m.To)) /\ ~IsMainShard(ShardId(m.From))
         THEN ErrMainShard
    ELSE NoError

\* VerifyFlags that applies the main-shard gate to external transactions only
VerifyFlagsGateExternalOnly(m) ==
    IF IsInternal(m) /\ RoleCount(m) > 1 THEN ErrInternalRoles
    ELSE IF ~IsInternal(m) /\ (IsRefund(m) \/ IsBounce(m) \/ IsRequestOrResponse(m))
         THEN ErrExternalRoles
    ELSE IF ~IsInternal(m) /\ IsMainShard(ShardId(m.To)) /\ ~IsMainShard(ShardId(m.From))
         THEN ErrMainShard
    ELSE NoError

VerifyFlags(m) ==
    IF IsInternal(m) /\ RoleCount(m) > 1 THEN ErrInternalRoles
    ELSE IF ~IsInternal(m) /\ (IsRefund(m) \/ IsBounce(m) \/ IsRequestOrResponse(m))
         THEN ErrExternalRoles
    ELSE IF IsMainShard(ShardId(m.To)) /\ ~IsMainShard(ShardId(m.From))
         THEN ErrMainShard
    ELSE NoError

(***************************************************************************)
(* Value: a non-negative integer with Add, Cmp, IsZero                     *)
(***************************************************************************)
Value0 == 0

ValueAdd(a, b) == a + b

ValueCmp(a, b) == IF a < b THEN -1 ELSE IF a = b THEN 0 ELSE 1

ValueIsZero(a) == a = 0

\* TransactionGasPrice that caps the price without testing the base fee
TransactionGasPriceNoBaseTest(m, baseFeePerGas) ==
    LET gasPrice == ValueAdd(baseFeePerGas, m.FeePack.MaxPriorityFeePerGas) IN
    IF ~ValueIsZero(m.FeePack.MaxFeePerGas) /\ ValueCmp(gasPrice, m.FeePack.MaxFeePerGas) > 0
    THEN [err |-> NoError, val |-> m.FeePack.MaxFeePerGas]
    ELSE [err |-> NoError, val |-> gasPrice]

TransactionGasPrice(m, baseFeePerGas) ==
    LET gasPrice == ValueAdd(baseFeePerGas, m.FeePack.MaxPriorityFeePerGas) IN
    IF ~ValueIsZero(m.FeePack.MaxFeePerGas) /\ ValueCmp(gasPrice, m.FeePack.MaxFeePerGas) > 0
    THEN IF ValueCmp(baseFeePerGas, m.FeePack.MaxFeePerGas) > 0
         THEN [err |-> ErrFeeBelowBase, val |-> Value0]
         ELSE [err |-> NoError, val |-> m.FeePack.MaxFeePerGas]
    ELSE [err |-> NoError, val |-> gasPrice]

(***************************************************************************)
(* TransactionFlagsFromKind and InternalTransactionPayload.ToTransaction   *)
(***************************************************************************)
KindFlags(kind) ==
    IF kind = DeployTransactionKind THEN <<TransactionFlagDeploy>>
    ELSE IF kind = RefundTransactionKind THEN <<TransactionFlagRefund>>
    ELSE IF kind = ResponseTransactionKind THEN <<TransactionFlagResponse>>
    ELSE <<>>

TransactionFlagsFromKind(internal, kind) ==
    NewTransactionFlags((IF internal THEN <<TransactionFlagInternal>> ELSE <<>>)
                            \o KindFlags(kind))

PayloadToTransaction(p, from, seqno) ==
    LET flags == TransactionFlagsFromKind(TRUE, p.Kind) IN
    [Flags |-> IF p.Bounce THEN SetBit(flags, TransactionFlagBounce) ELSE flags,
     FeePack |-> [FeeCredit |-> p.FeeCredit, MaxPriorityFeePerGas |-> Value0,
                  MaxFeePerGas |-> Value0],
     To |-> p.To, ChainId |-> 0, Seqno |-> seqno, Data |-> p.Data,
     From |-> from, TxId |-> 0, RefundTo |-> p.RefundTo, BounceTo |-> p.BounceTo,
     Value |-> p.Value, RequestId |-> p.RequestId, Token |-> p.Token,
     RequestChain |-> <<>>, Signature |-> <<>>]

(***************************************************************************)
(* Canonical binary encoding (RLP)                                         *)
(***************************************************************************)
Zeros(n) == [i \in 1 .. n |-> 0]

RECURSIVE BigEndian(_)
BigEndian(n) == IF n = 0 THEN <<>> ELSE BigEndian(n \div 256) \o <<n % 256>>

RlpUint(n) ==
    IF n = 0 THEN <<128>>
    ELSE IF n < 128 THEN <<n>>
    ELSE <<128 + Len(BigEndian(n))>> \o BigEndian(n)

RlpString(b) ==
    IF Len(b) = 1 /\ b[1] < 128 THEN b
    ELSE IF Len(b) <= 55 THEN <<128 + Len(b)>> \o b
    ELSE <<183 + Len(BigEndian(Len(b)))>> \o BigEndian(Len(b)) \o b

RlpList(payload) ==
    IF Len(payload) <= 55 THEN <<192 + Len(payload)>> \o payload
    ELSE <<247 + Len(BigEndian(Len(payload)))>> \o BigEndian(Len(payload)) \o payload

AddressBytes(a) == <<a.shard \div 256, a.shard % 256>> \o Zeros(17) \o <<a.id>>

RlpAddress(a) == RlpString(AddressBytes(a))

RlpValue(v) == RlpUint(v)

RlpFeePack(f) ==
    RlpList(RlpValue(f.FeeCredit) \o RlpValue(f.MaxPriorityFeePerGas)
                \o RlpValue(f.MaxFeePerGas))

RlpTokenBalance(t) == RlpList(RlpUint(t.Token) \o RlpValue(t.Balance))

RlpAsyncRequestInfo(r) == RlpList(RlpUint(r.Id) \o RlpAddress(r.Caller))

RECURSIVE RlpTokens(_)
RlpTokens(xs) ==
    IF xs = <<>> THEN <<>> ELSE RlpTokenBalance(Head(xs)) \o RlpTokens(Tail(xs))

RECURSIVE RlpRequestChain(_)
RlpRequestChain(xs) ==
    IF xs = <<>> THEN <<>> ELSE RlpAsyncRequestInfo(Head(xs)) \o RlpRequestChain(Tail(xs))

\* TransactionDigest.MarshalNil: the fields in declaration order
TransactionDigestMarshalNil(d) ==
    RlpList(RlpUint(d.Flags) \o RlpFeePack(d.FeePack) \o RlpAddress(d.To)
                \o RlpUint(d.ChainId) \o RlpUint(d.Seqno) \o RlpString(d.Data))

\* trailing optional fields are left out while they are empty
RlpOptionalTail(token, chain, sig) ==
    IF sig # <<>> THEN RlpList(token) \o RlpList(chain) \o RlpString(sig)
    ELSE IF chain # <<>> THEN RlpList(token) \o RlpList(chain)
    ELSE IF token # <<>> THEN RlpList(token)
    ELSE <<>>

TransactionMarshalNil(t) ==
    RlpList(TransactionDigestMarshalNil(t) \o RlpAddress(t.From) \o RlpUint(t.TxId)
                \o RlpAddress(t.RefundTo) \o RlpAddress(t.BounceTo)
                \o RlpValue(t.Value) \o RlpUint(t.RequestId)
                \o RlpOptionalTail(RlpTokens(t.Token), RlpRequestChain(t.RequestChain),
                                   t.Signature))

ExternalTransactionMarshalNil(x) ==
    RlpList(RlpUint(x.Kind) \o RlpFeePack(x.FeePack) \o RlpAddress(x.To)
                \o RlpUint(x.ChainId) \o RlpUint(x.Seqno) \o RlpString(x.Data)
                \o (IF x.AuthData # <<>> THEN RlpString(x.AuthData) ELSE <<>>))

(***************************************************************************)
(* Hashing: Keccak-256 as an injective function of the encoded bytes       *)
(***************************************************************************)
Keccak(bytes) == [keccak |-> bytes]

ToShardedHash(h, shard) == [shard |-> shard, digest |-> h]

\* SigningHash taken over the whole transaction instead of its digest
SigningHashWholeTransaction(m) == Keccak(TransactionMarshalNil(m))

SigningHash(m) == Keccak(TransactionDigestMarshalNil(m))

toExternal(m) ==
    [Kind |-> IF IsDeploy(m) THEN DeployTransactionKind
              ELSE IF IsRefund(m) THEN RefundTransactionKind
              ELSE ExecutionTransactionKind,
     FeePack |-> m.FeePack, To |-> m.To, ChainId |-> m.ChainId,
     Seqno |-> m.Seqno, Data |-> m.Data, AuthData |-> m.Signature]

ExternalTransactionHash(x) ==
    ToShardedHash(Keccak(ExternalTransactionMarshalNil(x)), ShardId(x.To))

Hash(m) ==
    IF IsExternal(m) THEN ExternalTransactionHash(toExternal(m))
    ELSE ToShardedHash(Keccak(TransactionMarshalNil(m)), ShardId(m.To))

(***************************************************************************)
(* Signing                                                                 *)
(***************************************************************************)
\* crypto.Sign: a deterministic function of the hash and the key; key 0
\* stands for a key the primitive refuses
EcdsaSign(hash, key) ==
    IF key = 0 THEN [err |-> "invalid private key", sig |-> <<>>]
    ELSE [err |-> NoError, sig |-> <<key>> \o hash.keccak]

ExternalTransactionSigningHash(x) ==
    Keccak(TransactionDigestMarshalNil(
        [Flags |-> TransactionFlagsFromKind(FALSE, x.Kind), FeePack |-> x.FeePack,
         Seqno |-> x.Seqno, To |-> x.To, Data |-> x.Data, ChainId |-> x.ChainId]))

ExternalTransactionSign(x, key) ==
    LET s == EcdsaSign(ExternalTransactionSigningHash(x), key) IN
    IF s.err # NoError THEN [err |-> s.err, ext |-> x]
    ELSE [err |-> NoError, ext |-> [x EXCEPT !.AuthData = s.sig]]

\* Transaction.Sign on an external transaction
Sign(m, key) ==
    LET r == ExternalTransactionSign(toExternal(m), key) IN
    IF r.err # NoError THEN [err |-> r.err, txn |-> m]
    ELSE [err |-> NoError, txn |-> [m EXCEPT !.Signature = r.ext.AuthData]]

(***************************************************************************)
(* TxnWithHash                                                             *)
(***************************************************************************)
\* NewTxnWithHash that caches the signing hash
NewTxnWithHashSigning(t) == [wrapped |-> TRUE, hash |-> SigningHash(t)]

NewTxnWithHash(t) == [wrapped |-> TRUE, hash |-> Hash(t)]

TxnWithHashHash(w) == w.hash

(***************************************************************************)
(* JSON form of TransactionFlags: the document is an array of strings      *)
(***************************************************************************)
MarshalJSON(f) ==
    (IF FlagsIsInternal(f) THEN <<"Internal">> ELSE <<"External">>)
        \o (IF FlagsIsDeploy(f) THEN <<"Deploy">> ELSE <<>>)
        \o (IF FlagsIsRefund(f) THEN <<"Refund">> ELSE <<>>)
        \o (IF FlagsIsBounce(f) THEN <<"Bounce">> ELSE <<>>)
        \o (IF FlagsIsResponse(f) THEN <<"Response">> ELSE <<>>)

SetToken(bits, v) ==
    IF v = "Internal" THEN SetBit(bits, TransactionFlagInternal)
    ELSE IF v = "Deploy" THEN SetBit(bits, TransactionFlagDeploy)
    ELSE IF v = "Refund" THEN SetBit(bits, TransactionFlagRefund)
    ELSE IF v = "Bounce" THEN SetBit(bits, TransactionFlagBounce)
    ELSE IF v = "Response" THEN SetBit(bits, TransactionFlagResponse)
    ELSE bits

RECURSIVE SetTokens(_, _)
SetTokens(bits, s) ==
    IF s = <<>> THEN bits ELSE SetTokens(SetToken(bits, Head(s)), Tail(s))

\* UnmarshalJSON that keeps the receiver's bits
UnmarshalJSONNoClear(bits, data) ==
    IF ~data.valid THEN [err |-> "json: cannot unmarshal", bits |-> bits]
    ELSE [err |-> NoError, bits |-> SetTokens(bits, data.items)]

\* the receiver is cleared before the document is parsed
UnmarshalJSON(bits, data) ==
    IF ~data.valid THEN [err |-> "json: cannot unmarshal", bits |-> Clear(bits)]
    ELSE [err |-> NoError, bits |-> SetTokens(Clear(bits), data.items)]

(***************************************************************************)
(* ExternalTransaction.ToTransaction                                       *)
(***************************************************************************)
\* ToTransaction that leaves the signature behind
ExternalTransactionToTransactionNoSignature(x) ==
    [NewEmptyTransaction EXCEPT
        !.Flags = TransactionFlagsFromKind(FALSE, x.Kind), !.To = x.To,
        !.ChainId = x.ChainId, !.Seqno = x.Seqno, !.Data = x.Data,
        !.FeePack = x.FeePack, !.From = x.To]

\* every field the literal does not name is the zero value
ExternalTransactionToTransaction(x) ==
    [Flags |-> TransactionFlagsFromKind(FALSE, x.Kind), FeePack |-> x.FeePack,
     To |-> x.To, ChainId |-> x.ChainId, Seqno |-> x.Seqno, Data |-> x.Data,
     From |-> x.To, TxId |-> 0, RefundTo |-> Addr(0, 0), BounceTo |-> Addr(0, 0),
     Value |-> 0, RequestId |-> 0, Token |-> <<>>, RequestChain |-> <<>>,
     Signature |-> x.AuthData]

(***************************************************************************)
(* Inputs                                                                  *)
(***************************************************************************)
FlagBits == 0 .. 31
Shards == {MainShardId, 3}
NoRes == [err |-> "pending", val |-> 0]
NoTwh == [wrapped |-> FALSE, hash |-> 0]
NoArg == [op |-> "none"]

TokenBalance(id, amount) == [Token |-> id, Balance |-> amount]
Tokens(n) == [i \in 1 .. n |-> TokenBalance(1, 1)]

DataAtLimit == Zeros(TransactionMaxDataSize)
DataOverLimit == Zeros(TransactionMaxDataSize + 1)
TokenAtLimit == Tokens(TransactionMaxTokenSize)
TokenOverLimit == Tokens(TransactionMaxTokenSize + 1)

VerifyInputs ==
    { [NewEmptyTransaction EXCEPT !.Flags = f, !.RequestId = r,
                                  !.From = Addr(fs, 1), !.To = Addr(ts, 2),
                                  !.Data = d, !.Token = tk] :
        f \in FlagBits, r \in 0 .. MaxRequestId, fs \in Shards, ts \in Shards,
        d \in {<<>>, DataAtLimit, DataOverLimit},
        tk \in {<<>>, TokenAtLimit, TokenOverLimit} }

(***************************************************************************)
(* Specification of VerifyFlags                                            *)
(***************************************************************************)
InitVerify ==
    /\ pc = "input"
    /\ txn \in VerifyInputs
    /\ txn2 = NewEmptyTransaction
    /\ arg = NoArg
    /\ res = NoRes
    /\ twh = NoTwh

CallVerifyFlags ==
    /\ pc = "input"
    /\ res' = [err |-> VerifyFlags(txn), val |-> 0]
    /\ pc' = "verified"
    /\ UNCHANGED <<txn, txn2, arg, twh>>

NextVerify == CallVerifyFlags

SpecVerify == InitVerify /\ [][NextVerify]_vars

(***************************************************************************)
(* Specification of TransactionGasPrice                                    *)
(***************************************************************************)
Fees == 0 .. MaxFee

InitGas ==
    /\ pc = "input"
    /\ \E prio \in Fees, max \in Fees :
          txn = [NewEmptyTransaction EXCEPT
                    !.FeePack = [FeeCredit |-> 0, MaxPriorityFeePerGas |-> prio,
                                 MaxFeePerGas |-> max]]
    /\ txn2 = NewEmptyTransaction
    /\ \E b \in Fees : arg = [op |-> "gas", baseFeePerGas |-> b]
    /\ res = NoRes
    /\ twh = NoTwh

CallTransactionGasPrice ==
    /\ pc = "input"
    /\ arg.op = "gas"
    /\ res' = TransactionGasPrice(txn, arg.baseFeePerGas)
    /\ pc' = "priced"
    /\ UNCHANGED <<txn, txn2, arg, twh>>

NextGas == CallTransactionGasPrice

SpecGas == InitGas /\ [][NextGas]_vars

(***************************************************************************)
(* Specification of InternalTransactionPayload.ToTransaction               *)
(***************************************************************************)
Kinds == {ExecutionTransactionKind, DeployTransactionKind,
          RefundTransactionKind, ResponseTransactionKind}

PayloadData == {<<>>, <<222, 173>>}
PayloadTokens == {<<>>, <<TokenBalance(1, 5)>>}

Payloads ==
    [Kind : Kinds, Bounce : BOOLEAN, FeeCredit : {0, 1000}, ForwardKind : {0},
     To : {Addr(MainShardId, 2), Addr(3, 2)}, RefundTo : {Addr(1, 3), Addr(1, 4)},
     BounceTo : {Addr(1, 3), Addr(1, 4)}, Value : {0, 7}, Data : PayloadData,
     RequestId : 0 .. MaxRequestId, Token : PayloadTokens]

InitPayload ==
    /\ pc = "input"
    /\ txn = NewEmptyTransaction
    /\ txn2 = NewEmptyTransaction
    /\ \E p \in Payloads, from \in {Addr(1, 1), Addr(3, 1)}, seqno \in {0, 7} :
          arg = [op |-> "payload", p |-> p, from |-> from, seqno |-> seqno]
    /\ res = NoRes
    /\ twh = NoTwh

CallPayloadToTransaction ==
    /\ pc = "input"
    /\ arg.op = "payload"
    /\ txn' = PayloadToTransaction(arg.p, arg.from, arg.seqno)
    /\ pc' = "promoted"
    /\ UNCHANGED <<txn2, arg, res, twh>>

NextPayload == CallPayloadToTransaction

SpecPayload == InitPayload /\ [][NextPayload]_vars

(***************************************************************************)
(* Specification of SigningHash on two transactions                        *)
(***************************************************************************)
FeePacks ==
    { NewFeePack, [NewFeePack EXCEPT !.FeeCredit = 1],
      [NewFeePack EXCEPT !.MaxPriorityFeePerGas = 1],
      [NewFeePack EXCEPT !.MaxFeePerGas = 1] }

DigestInputs ==
    { [NewEmptyTransaction EXCEPT !.Flags = f, !.FeePack = fp, !.To = to,
                                  !.ChainId = c, !.Seqno = sq, !.Data = d] :
        f \in {0, 2}, fp \in FeePacks, to \in {Addr(1, 2), Addr(3, 2)},
        c \in {0, 1}, sq \in {0, 128}, d \in {<<>>, <<128>>} }

\* a transaction with every field outside the digest changed
OutsideAll(t) ==
    [t EXCEPT !.From = Addr(3, 9), !.TxId = 1, !.RefundTo = Addr(1, 9),
              !.BounceTo = Addr(1, 8), !.Value = 7, !.RequestId = 1,
              !.Token = <<TokenBalance(1, 5)>>,
              !.RequestChain = <<[Id |-> 1, Caller |-> Addr(1, 1)]>>,
              !.Signature = <<1, 2, 3>>]

OutsideFields == {"From", "TxId", "RefundTo", "BounceTo", "Value", "RequestId",
                  "Token", "RequestChain", "Signature"}

\* t with the fields of ch, all outside the digest, changed
Outside(t, ch) == [f \in DOMAIN t |-> IF f \in ch THEN OutsideAll(t)[f] ELSE t[f]]

OutsideChanges == {{}, OutsideFields} \cup {{f} : f \in OutsideFields}

InitSigning ==
    /\ pc = "input"
    /\ txn \in DigestInputs
    /\ \E t \in DigestInputs, ch \in OutsideChanges : txn2 = Outside(t, ch)
    /\ arg = NoArg
    /\ res = NoRes
    /\ twh = NoTwh

CallSigningHash ==
    /\ pc = "input"
    /\ res' = [err |-> NoError, val |-> <<SigningHash(txn), SigningHash(txn2)>>]
    /\ pc' = "hashed"
    /\ UNCHANGED <<txn, txn2, arg, twh>>

NextSigning == CallSigningHash

SpecSigning == InitSigning /\ [][NextSigning]_vars

(***************************************************************************)
(* Specification of TxnWithHash: wrap, then mutate and read.  txn is the   *)
(* transaction the wrapper points to, txn2 its value when it was wrapped.  *)
(***************************************************************************)
CacheInputs ==
    { [NewEmptyTransaction EXCEPT !.Flags = f, !.To = Addr(3, 2), !.From = Addr(3, 2)] :
        f \in {0, 1, 2, 9} }

Keys == {0, 1, 2}

InitCache ==
    /\ pc = "built"
    /\ txn \in CacheInputs
    /\ txn2 = NewEmptyTransaction
    /\ arg = NoArg
    /\ res = NoRes
    /\ twh = NoTwh

CallNewTxnWithHash ==
    /\ pc = "built"
    /\ twh' = NewTxnWithHash(txn)
    /\ txn2' = txn
    /\ pc' = "wrapped"
    /\ UNCHANGED <<txn, arg, res>>

\* toExternal panics on an internal transaction
CallSign ==
    /\ pc = "wrapped"
    /\ \E key \in Keys :
          IF IsInternal(txn)
          THEN pc' = "panic" /\ UNCHANGED txn
          ELSE pc' = pc /\ txn' = Sign(txn, key).txn
    /\ UNCHANGED <<txn2, arg, res, twh>>

WriteFrom ==
    /\ pc = "wrapped"
    /\ \E a \in {Addr(3, 2), Addr(3, 7)} : txn' = [txn EXCEPT !.From = a]
    /\ UNCHANGED <<pc, txn2, arg, res, twh>>

WriteSeqno ==
    /\ pc = "wrapped"
    /\ \E n \in {0, 1} : txn' = [txn EXCEPT !.Seqno = n]
    /\ UNCHANGED <<pc, txn2, arg, res, twh>>

WriteRequestId ==
    /\ pc = "wrapped"
    /\ \E r \in 0 .. MaxRequestId : txn' = [txn EXCEPT !.RequestId = r]
    /\ UNCHANGED <<pc, txn2, arg, res, twh>>

WriteFlag ==
    /\ pc = "wrapped"
    /\ \E i \in {TransactionFlagInternal, TransactionFlagDeploy} :
          txn' = [txn EXCEPT !.Flags = SetBit(txn.Flags, i)]
    /\ UNCHANGED <<pc, txn2, arg, res, twh>>

CallTxnWithHashHash ==
    /\ pc = "wrapped"
    /\ res' = [err |-> NoError, val |-> TxnWithHashHash(twh)]
    /\ UNCHANGED <<pc, txn, txn2, arg, twh>>

NextCache ==
    \/ CallNewTxnWithHash
    \/ CallSign
    \/ WriteFrom
    \/ WriteSeqno
    \/ WriteRequestId
    \/ WriteFlag
    \/ CallTxnWithHashHash

SpecCache == InitCache /\ [][NextCache]_vars

(***************************************************************************)
(* Specification of the JSON form of the flags                             *)
(***************************************************************************)
RECURSIVE SeqsUpTo(_, _)
SeqsUpTo(S, n) ==
    IF n = 0 THEN {<<>>}
    ELSE SeqsUpTo(S, n - 1)
            \cup {Append(q, x) : q \in {r \in SeqsUpTo(S, n - 1) : Len(r) = n - 1}, x \in S}

JsonTokens == {"Internal", "External", "Deploy", "Refund", "Bounce", "Response", "Unknown"}

NoData == [valid |-> FALSE, items |-> <<>>]

\* either flags to marshal, or a document handed in by a caller
InitJson ==
    /\ txn = NewEmptyTransaction
    /\ txn2 = NewEmptyTransaction
    /\ res = NoRes
    /\ twh = NoTwh
    /\ \E recv \in {0, 10, 255} :
          \/ /\ pc = "input"
             /\ \E f \in 0 .. 63 :
                   arg = [op |-> "json", f |-> f, data |-> NoData, recv |-> recv]
          \/ /\ pc = "received"
             /\ \E d \in {NoData} \cup [valid : {TRUE}, items : SeqsUpTo(JsonTokens, MaxTokens)] :
                   arg = [op |-> "json", f |-> 0, data |-> d, recv |-> recv]

CallMarshalJSON ==
    /\ pc = "input"
    /\ arg.op = "json"
    /\ arg' = [arg EXCEPT !.data = [valid |-> TRUE, items |-> MarshalJSON(arg.f)]]
    /\ pc' = "marshalled"
    /\ UNCHANGED <<txn, txn2, res, twh>>

CallUnmarshalJSON ==
    /\ pc \in {"marshalled", "received"}
    /\ LET r == UnmarshalJSON(arg.recv, arg.data) IN
          /\ arg' = [arg EXCEPT !.recv = r.bits]
          /\ res' = [err |-> r.err, val |-> 0]
    /\ pc' = IF pc = "marshalled" THEN "roundtrip" ELSE "parsed"
    /\ UNCHANGED <<txn, txn2, twh>>

NextJson == CallMarshalJSON \/ CallUnmarshalJSON

SpecJson == InitJson /\ [][NextJson]_vars

(***************************************************************************)
(* Specification of VerifyFlags followed by Sign                           *)
(***************************************************************************)
SignInputs ==
    { [NewEmptyTransaction EXCEPT !.Flags = f, !.RequestId = r,
                                  !.From = Addr(fs, 1), !.To = Addr(ts, 2),
                                  !.ChainId = 1, !.Seqno = sq, !.Data = d] :
        f \in FlagBits, r \in 0 .. MaxRequestId, fs \in Shards, ts \in Shards,
        sq \in {0, 7}, d \in {<<>>, <<222, 173>>} }

InitSign ==
    /\ pc = "input"
    /\ txn \in SignInputs
    /\ txn2 = NewEmptyTransaction
    /\ arg = NoArg
    /\ res = NoRes
    /\ twh = NoTwh

\* Sign after VerifyFlags; arg keeps the key and the verdict of VerifyFlags,
\* txn2 the transaction as it was before signing
CallSignVerified ==
    /\ pc = "verified"
    /\ \E key \in Keys :
          IF IsInternal(txn)
          THEN pc' = "panic" /\ UNCHANGED <<txn, txn2, arg, res>>
          ELSE LET r == Sign(txn, key) IN
               /\ txn' = r.txn
               /\ txn2' = txn
               /\ arg' = [op |-> "sign", key |-> key, accepted |-> res.err = NoError]
               /\ res' = [err |-> r.err, val |-> 0]
               /\ pc' = "signed"
    /\ UNCHANGED twh

NextSign == CallVerifyFlags \/ CallSignVerified

SpecSign == InitSign /\ [][NextSign]_vars

(***************************************************************************)
(* Specification of ExternalTransaction.ToTransaction                      *)
(***************************************************************************)
ExternalTransactions ==
    [Kind : Kinds, FeePack : FeePacks, To : {Addr(MainShardId, 2), Addr(3, 2)},
     ChainId : {0, 1}, Seqno : {0, 7}, Data : PayloadData,
     AuthData : {<<>>, <<1, 2, 3>>}]

InitPromote ==
    /\ pc = "input"
    /\ txn = NewEmptyTransaction
    /\ txn2 = NewEmptyTransaction
    /\ \E x \in ExternalTransactions : arg = [op |-> "promote", x |-> x]
    /\ res = NoRes
    /\ twh = NoTwh

\* res keeps x.Hash() and x.ToTransaction().Hash()
CallExternalToTransaction ==
    /\ pc = "input"
    /\ arg.op = "promote"
    /\ LET t == ExternalTransactionToTransaction(arg.x) IN
          /\ txn' = t
          /\ res' = [err |-> NoError,
                     val |-> <<ExternalTransactionHash(arg.x),
                               IF IsExternal(t) THEN Hash(t) ELSE <<>> >>]
    /\ pc' = "promoted"
    /\ UNCHANGED <<txn2, arg, twh>>

NextPromote == CallExternalToTransaction

SpecPromote == InitPromote /\ [][NextPromote]_vars

(***************************************************************************)
(* Properties of VerifyFlags                                               *)
(***************************************************************************)
Bit(f, i) == (f \div (2 ^ i)) % 2

\* the four role conditions of a transaction, counted from the raw fields
Roles(m) ==
    Bit(m.Flags, 1) + Bit(m.Flags, 2) + Bit(m.Flags, 3)
        + (IF m.RequestId = 0 THEN 0 ELSE 1)

ToMainFromRegular(m) == m.To.shard = MainShardId /\ m.From.shard # MainShardId

FlagRulesHold(m) ==
    IF Bit(m.Flags, 0) = 1 THEN Roles(m) <= 1
    ELSE Bit(m.Flags, 2) = 0 /\ Bit(m.Flags, 3) = 0 /\ m.RequestId = 0

\* C1: an internal transaction with two or more of Deploy, Refund, Bounce,
\* RequestId # 0 is rejected by VerifyFlags, whatever its other fields.
C1_InternalExclusive ==
    (pc = "verified" /\ Bit(txn.Flags, 0) = 1 /\ Roles(txn) >= 2)
        => res.err # NoError

C1_Witness ==
    /\ pc = "verified"
    /\ Bit(txn.Flags, 0) = 1 /\ Bit(txn.Flags, 3) = 1 /\ txn.RequestId # 0
    /\ Bit(txn.Flags, 1) = 0 /\ Bit(txn.Flags, 2) = 0
    /\ txn.From.shard = MainShardId
    /\ res.err = ErrInternalRoles

\* C2: an external transaction with Refund, Bounce or RequestId # 0 is
\* rejected; an external transaction with only Deploy or no role bit is not
\* rejected by the role rule.
C2_ExternalRestricted ==
    (pc = "verified" /\ Bit(txn.Flags, 0) = 0)
        => /\ (Bit(txn.Flags, 2) = 1 \/ Bit(txn.Flags, 3) = 1 \/ txn.RequestId # 0)
                => res.err # NoError
           /\ (Bit(txn.Flags, 2) = 0 /\ Bit(txn.Flags, 3) = 0 /\ txn.RequestId = 0)
                => res.err # ErrExternalRoles

C2_Witness ==
    /\ pc = "verified"
    /\ Bit(txn.Flags, 0) = 0 /\ txn.RequestId # 0
    /\ Bit(txn.Flags, 2) = 0 /\ Bit(txn.Flags, 3) = 0
    /\ res.err = ErrExternalRoles

\* C3: a transaction to the main shard from a regular shard is rejected;
\* when the flag rules hold and the transaction is not to-main-from-regular,
\* VerifyFlags returns no error.
C3_MainShardGate ==
    pc = "verified"
        => /\ ToMainFromRegular(txn) => res.err # NoError
           /\ (FlagRulesHold(txn) /\ ~ToMainFromRegular(txn)) => res.err = NoError

C3_Witness ==
    /\ pc = "verified"
    /\ Bit(txn.Flags, 0) = 1 /\ Roles(txn) = 1
    /\ ToMainFromRegular(txn)
    /\ res.err = ErrMainShard

\* C5: every transaction accepted by VerifyFlags has RequestId # 0 exactly
\* when it is a request or a response (a set Response bit with RequestId = 0
\* is rejected), and IsRequest, IsResponse exclude each other and imply
\* IsRequestOrResponse.
C5_RequestResponseMarker ==
    (pc = "verified" /\ res.err = NoError)
        => /\ (txn.RequestId # 0) <=> (IsRequest(txn) \/ IsResponse(txn))
           /\ ~(IsRequest(txn) /\ IsResponse(txn))
           /\ IsRequest(txn) => IsRequestOrResponse(txn)
           /\ IsResponse(txn) => IsRequestOrResponse(txn)

\* C8: every transaction accepted by VerifyFlags has at most
\* TransactionMaxTokenSize tokens and at most TransactionMaxDataSize data bytes.
C8_SizeLimits ==
    (pc = "verified" /\ res.err = NoError)
        => /\ Len(txn.Token) <= TransactionMaxTokenSize
           /\ Len(txn.Data) <= TransactionMaxDataSize

(***************************************************************************)
(* Properties of TransactionGasPrice and of payload promotion              *)
(***************************************************************************)
Min(a, b) == IF a <= b THEN a ELSE b

GasBase == arg.baseFeePerGas
GasPrio == txn.FeePack.MaxPriorityFeePerGas
GasMax == txn.FeePack.MaxFeePerGas

\* C7: TransactionGasPrice(b) fails exactly when maxFeePerGas # 0 and
\* b > maxFeePerGas; otherwise it is b + maxPriorityFeePerGas when
\* maxFeePerGas = 0 and min(b + maxPriorityFeePerGas, maxFeePerGas) when not;
\* a successful result is at least b and, with a limit, at most the limit.
C7_GasPrice ==
    pc = "priced"
        => /\ (res.err # NoError) <=> (GasMax # 0 /\ GasBase > GasMax)
           /\ (res.err = NoError /\ GasMax = 0) => res.val = GasBase + GasPrio
           /\ (res.err = NoError /\ GasMax # 0)
                => res.val = Min(GasBase + GasPrio, GasMax)
           /\ res.err = NoError => res.val >= GasBase
           /\ (res.err = NoError /\ GasMax # 0) => res.val <= GasMax

C7_Witness ==
    /\ pc = "priced"
    /\ GasMax # 0 /\ GasBase <= GasMax /\ GasBase + GasPrio > GasMax
    /\ res.err = NoError /\ res.val = GasMax

\* C4: the transaction built by p.ToTransaction(from, seqno) has the Internal
\* bit, at most one of Deploy, Refund, Bounce, request-or-response, and the
\* payload's To, Data, Value, Token, RequestId, RefundTo, BounceTo and the
\* given Seqno.
C4_PayloadPromotion ==
    pc = "promoted"
        => /\ Bit(txn.Flags, 0) = 1
           /\ Roles(txn) <= 1
           /\ txn.To = arg.p.To /\ txn.Data = arg.p.Data
           /\ txn.Value = arg.p.Value /\ txn.Token = arg.p.Token
           /\ txn.RequestId = arg.p.RequestId
           /\ txn.RefundTo = arg.p.RefundTo /\ txn.BounceTo = arg.p.BounceTo
           /\ txn.Seqno = arg.seqno

(***************************************************************************)
(* Properties of the signing hash                                          *)
(***************************************************************************)
SameDigestFields(a, b) ==
    /\ a.Flags = b.Flags /\ a.FeePack = b.FeePack /\ a.To = b.To
    /\ a.ChainId = b.ChainId /\ a.Seqno = b.Seqno /\ a.Data = b.Data

\* C6: two transactions have the same signing hash exactly when they agree
\* on Flags, FeePack, To, ChainId, Seqno and Data, whatever their other fields.
C6_SigningHashInputs ==
    pc = "hashed" => ((res.val[1] = res.val[2]) <=> SameDigestFields(txn, txn2))

C6_Witness ==
    /\ pc = "hashed"
    /\ SameDigestFields(txn, txn2)
    /\ txn.From # txn2.From /\ txn.Signature # txn2.Signature
    /\ txn.RequestId # txn2.RequestId /\ txn.Value # txn2.Value
    /\ res.val[1] = res.val[2]

C6_WitnessDiffers ==
    /\ pc = "hashed"
    /\ txn.ChainId # txn2.ChainId
    /\ [txn EXCEPT !.ChainId = 0] = [txn2 EXCEPT !.ChainId = 0]
    /\ res.val[1] # res.val[2]

(***************************************************************************)
(* Properties of the cached hash                                           *)
(***************************************************************************)
\* the fields Hash() reads: all of them for an internal transaction; for an
\* external one Flags, FeePack, To, ChainId, Seqno, Data and Signature
SameHashFields(a, b) ==
    /\ SameDigestFields(a, b)
    /\ a.Signature = b.Signature
    /\ Bit(a.Flags, 0) = 1 => a = b

\* C9: the hash cached by NewTxnWithHash is the wrapped transaction's Hash()
\* at wrap time; it stays so, and TxnWithHash.Hash() returns it, after any
\* later Sign or field write; it equals the transaction's current Hash() as
\* long as no field that Hash() reads was changed since wrapping.
C9_CachedHash ==
    twh.wrapped
        => /\ twh.hash = Hash(txn2)
           /\ res.err = NoError => res.val = Hash(txn2)
           /\ SameHashFields(txn, txn2) => twh.hash = Hash(txn)

C9_Witness ==
    /\ twh.wrapped
    /\ res.err = NoError /\ res.val = Hash(txn2)
    /\ txn.Signature # txn2.Signature /\ txn.Seqno # txn2.Seqno
    /\ Hash(txn) # res.val

C9_WitnessSame ==
    /\ twh.wrapped
    /\ res.err = NoError
    /\ txn # txn2 /\ SameHashFields(txn, txn2)
    /\ res.val = Hash(txn)

(***************************************************************************)
(* Properties of the JSON form                                             *)
(***************************************************************************)
RoleTokens == <<"Deploy", "Refund", "Bounce", "Response">>

TokenBit(t) == CHOOSE i \in 1 .. 4 : RoleTokens[i] = t

Range(s) == {s[i] : i \in DOMAIN s}

\* the bitset named by a set of tokens
BitsOf(T) ==
    (IF "Internal" \in T THEN 1 ELSE 0) + (IF "Deploy" \in T THEN 2 ELSE 0)
        + (IF "Refund" \in T THEN 4 ELSE 0) + (IF "Bounce" \in T THEN 8 ELSE 0)
        + (IF "Response" \in T THEN 16 ELSE 0)

\* C10: for flags within the five named bits MarshalJSON emits "Internal" or
\* "External" first, then the set bits' tokens in the order Deploy, Refund,
\* Bounce, Response, and UnmarshalJSON of that output gives the flags back
\* whatever the receiver held; UnmarshalJSON takes tokens in any order and
\* ignores unknown tokens, "External" among them.
C10_JsonRoundTrip ==
    /\ (pc \in {"marshalled", "roundtrip"} /\ arg.f < 32)
          => /\ Head(arg.data.items) = (IF Bit(arg.f, 0) = 1 THEN "Internal" ELSE "External")
             /\ Tail(arg.data.items)
                    = SelectSeq(RoleTokens, LAMBDA t : Bit(arg.f, TokenBit(t)) = 1)
    /\ (pc = "roundtrip" /\ arg.f < 32) => (res.err = NoError /\ arg.recv = arg.f)
    /\ (pc = "parsed" /\ arg.data.valid)
          => (res.err = NoError /\ arg.recv = BitsOf(Range(arg.data.items)))

C10_Witness ==
    /\ pc = "roundtrip"
    /\ arg.f = 8
    /\ arg.data.items = <<"External", "Bounce">>
    /\ arg.recv = 8

C10_WitnessAnyOrder ==
    /\ pc = "parsed"
    /\ arg.data.items = <<"Response", "Unknown", "Internal">>
    /\ arg.recv = 17

(***************************************************************************)
(* Properties of Sign and of external promotion                            *)
(***************************************************************************)
\* C11: for an external transaction that VerifyFlags accepts, Sign signs the
\* transaction's own SigningHash(): the signature it stores is the one the
\* key produces over SigningHash().
C11_SignSignsSigningHash ==
    (pc = "signed" /\ arg.accepted /\ res.err = NoError)
        => txn.Signature = EcdsaSign(SigningHash(txn), arg.key).sig

\* C12: for every ExternalTransaction x of any of the four kinds,
\* x.ToTransaction() is external, its toExternal() is x field for field, and
\* x.ToTransaction().Hash() = x.Hash().
C12_PromotionIdentity ==
    pc = "promoted"
        => /\ Bit(txn.Flags, 0) = 0
           /\ toExternal(txn) = arg.x
           /\ res.val[2] = res.val[1]

\* C12 amended: the same for the kinds Execution, Deploy and Refund.
C12_PromotionIdentityNoResponse ==
    (pc = "promoted" /\ arg.x.Kind # ResponseTransactionKind)
        => /\ Bit(txn.Flags, 0) = 0
           /\ toExternal(txn) = arg.x
           /\ res.val[2] = res.val[1]

C12_Witness ==
    /\ pc = "promoted"
    /\ arg.x.Kind = RefundTransactionKind
    /\ arg.x.AuthData # <<>>
    /\ toExternal(txn) = arg.x
    /\ res.val[2] = res.val[1]

====
